---- MODULE Spec2Model ----
(***************************************************************************)
(* Model of lib/rucio/rse/protocols/posix.py: the Default and Symlink RSE  *)
(* protocols acting on a local POSIX filesystem.                           *)
(*                                                                         *)
(* A path string is modelled by its '/'-split: "/data/a/f" is              *)
(* <<"", "data", "a", "f">>, so that '/'.join is concatenation and the     *)
(* code's string manipulations (dirname, split, +=) are computed as the    *)
(* code computes them.  The filesystem maps each node (the non-empty       *)
(* components of an absolute path) to an entry.                            *)
(***************************************************************************)
EXTENDS Naturals, Sequences, FiniteSets, TLC

VARIABLES
    fs,       \* the filesystem: node -> entry
    pre,      \* the filesystem as it was when the last operation was called
    last,     \* the last protocol call: operation, arguments, outcome
    variant,  \* the protocol class of the instance: "Default" or "Symlink"
    pc,       \* position of the stepwise Symlink.get
    lnk,      \* locals of the stepwise Symlink.get
    wk,       \* the workers running put concurrently: position and locals
    map       \* the last lfns2pfns call: attributes, argument, result

vars == <<fs, pre, last, variant, pc, lnk, wk, map>>

-----------------------------------------------------------------------------
(* Bounds *)

\* file contents are 1..MaxContent; 0 is the empty file
MaxContent == 2

-----------------------------------------------------------------------------
(* errno values of OSError *)

ENOENT == 2
EACCES == 13
EEXIST == 17
ENOTDIR == 20
EISDIR == 21

-----------------------------------------------------------------------------
(* Path strings and nodes *)

NonEmpty(c) == c # ""

\* the node an absolute path string resolves to (empty components, i.e.
\* repeated or trailing separators, are ignored by the OS)
ToNode(str) == SelectSeq(str, NonEmpty)

\* the path string of a node
ToStr(n) == <<"">> \o n

Front(s) == SubSeq(s, 1, Len(s) - 1)

\* os.path.dirname on a split string
dirname(str) == Front(str)

Root == <<>>
TmpDir == <<"tmp">>
LocalSrc == <<"tmp", "s">>
LocalDst == <<"tmp", "d">>
DataDir == <<"data">>
DirA == <<"data", "a">>
DirB == <<"data", "a", "b">>
FileF == <<"data", "a", "f">>
FileG == <<"data", "a", "b", "g">>

Dirs == {Root, TmpDir, DataDir, DirA, DirB}
Leaves == {LocalSrc, LocalDst, FileF, FileG}
Nodes == Dirs \cup Leaves

Parent(n) == Front(n)
Children(n) == {c \in Nodes : Len(c) = Len(n) + 1 /\ Parent(c) = n}

-----------------------------------------------------------------------------
(* Filesystem entries *)

NoEntry == [kind |-> "none", data |-> 0, mode |-> "-", to |-> <<>>]
File(c) == [kind |-> "file", data |-> c, mode |-> "-", to |-> <<>>]
Dir(m) == [kind |-> "dir", data |-> 0, mode |-> m, to |-> <<>>]
Link(t) == [kind |-> "link", data |-> 0, mode |-> "-", to |-> t]

Contents == 1..MaxContent

Searchable(e) == e.kind = "dir" /\ e.mode \in {"rwx", "rx"}
Writable(e) == e.kind = "dir" /\ e.mode = "rwx"

\* path resolution of the directories leading to node n: 0, or the errno of
\* the first component that cannot be traversed
LookupErr(f, n) ==
    LET Bad == {i \in 0..(Len(n) - 1) : ~Searchable(f[SubSeq(n, 1, i)])}
    IN  IF Bad = {} THEN 0
        ELSE LET i == CHOOSE j \in Bad : \A k \in Bad : j <= k
                 e == f[SubSeq(n, 1, i)]
             IN  IF e.kind = "none" THEN ENOENT
                 ELSE IF e.kind = "dir" THEN EACCES
                 ELSE ENOTDIR

\* lstat: errno of looking the entry itself up, not following a link
LstatErr(f, n) ==
    IF LookupErr(f, n) # 0 THEN LookupErr(f, n)
    ELSE IF f[n].kind = "none" THEN ENOENT
    ELSE 0

\* the node a lookup ends at when a final link is followed (link targets are
\* regular storage paths, never links)
Follow(f, n) ==
    IF LookupErr(f, n) = 0 /\ f[n].kind = "link" THEN f[n].to ELSE n

\* stat: follows a final link
StatErr(f, n) == LstatErr(f, Follow(f, n))

\* os.path.exists: True when stat succeeds, False on every OSError
OsPathExists(f, n) == StatErr(f, n) = 0

\* os.path.islink
OsPathIslink(f, n) == LstatErr(f, n) = 0 /\ f[n].kind = "link"

\* open(path, 'rb')
OpenReadErr(f, n) ==
    IF StatErr(f, n) # 0 THEN StatErr(f, n)
    ELSE IF f[Follow(f, n)].kind = "dir" THEN EISDIR
    ELSE 0

\* creating a new entry e at n (mkdir, symlink, O_CREAT on a missing name)
CreateAt(f, n, e) ==
    IF LookupErr(f, n) # 0 THEN [err |-> LookupErr(f, n), fs |-> f]
    ELSE IF f[n].kind # "none" THEN [err |-> EEXIST, fs |-> f]
    ELSE IF ~Writable(f[Parent(n)]) THEN [err |-> EACCES, fs |-> f]
    ELSE [err |-> 0, fs |-> [f EXCEPT ![n] = e]]

\* os.mkdir
OsMkdir(f, n) ==
    IF n = Root THEN [err |-> EEXIST, fs |-> f]
    ELSE CreateAt(f, n, Dir("rwx"))

\* os.symlink(target, linkpath)
OsSymlink(f, target, n) == CreateAt(f, n, Link(target))

\* open(path, 'wb') followed by writing content c and closing
WriteFile(f, n0, c) ==
    LET n == Follow(f, n0)
    IN  IF LookupErr(f, n) # 0 THEN [err |-> LookupErr(f, n), fs |-> f]
        ELSE IF f[n].kind = "dir" THEN [err |-> EISDIR, fs |-> f]
        ELSE IF f[n].kind = "file" THEN [err |-> 0, fs |-> [f EXCEPT ![n] = File(c)]]
        ELSE CreateAt(f, n, File(c))

\* os.remove / os.unlink
OsRemove(f, n) ==
    IF LstatErr(f, n) # 0 THEN [err |-> LstatErr(f, n), fs |-> f]
    ELSE IF ~Writable(f[Parent(n)]) THEN [err |-> EACCES, fs |-> f]
    ELSE IF f[n].kind = "dir" THEN [err |-> EISDIR, fs |-> f]
    ELSE [err |-> 0, fs |-> [f EXCEPT ![n] = NoEntry]]

\* os.rename(old, new) of a file onto a missing name or onto a file
OsRename(f, old, new) ==
    IF LookupErr(f, old) # 0 THEN [err |-> LookupErr(f, old), fs |-> f]
    ELSE IF LookupErr(f, new) # 0 THEN [err |-> LookupErr(f, new), fs |-> f]
    ELSE IF f[old].kind = "none" THEN [err |-> ENOENT, fs |-> f]
    ELSE IF old = new THEN [err |-> 0, fs |-> f]
    ELSE IF ~Writable(f[Parent(old)]) \/ ~Writable(f[Parent(new)])
         THEN [err |-> EACCES, fs |-> f]
    ELSE IF f[new].kind = "dir" THEN [err |-> EISDIR, fs |-> f]
    ELSE [err |-> 0, fs |-> [f EXCEPT ![new] = f[old], ![old] = NoEntry]]

RECURSIVE OsMakedirs(_, _)
\* os.makedirs(name), exist_ok=False: the missing ancestors first (a
\* FileExistsError of theirs is passed over), then mkdir of name itself
OsMakedirs(f, n) ==
    IF n # Root /\ ~OsPathExists(f, Parent(n))
    THEN LET r == OsMakedirs(f, Parent(n))
         IN  IF r.err \in {0, EEXIST} THEN OsMkdir(r.fs, n) ELSE r
    ELSE OsMkdir(f, n)

\* call(['rm', '-rf', path]): removes what it can and never raises
RmRf(f, n) ==
    IF OsRemove(f, n).err = 0 THEN OsRemove(f, n).fs ELSE f

\* shutil.copy that opens dst but copies no bytes
ShutilCopy_nobytes(f, src, dst) ==
    IF OpenReadErr(f, src) # 0 THEN [err |-> OpenReadErr(f, src), fs |-> f]
    ELSE WriteFile(f, dst, 0)

\* shutil.copy(src, dst) with dst not a directory: open src for reading,
\* then open dst for writing and copy the bytes
ShutilCopy(f, src, dst) ==
    IF OpenReadErr(f, src) # 0 THEN [err |-> OpenReadErr(f, src), fs |-> f]
    ELSE WriteFile(f, dst, f[Follow(f, src)].data)

-----------------------------------------------------------------------------
(* Protocol attributes and the PFN mapper *)

\* self.attributes: scheme, hostname, prefix ("/data")
attributes == [scheme |-> "file", hostname |-> "host", prefix |-> <<"", "data">>]

\* self.rse['prefix']: the storage root used by put's bootstrap
rse_prefix == <<"", "data">>

\* the PFN string scheme://hostname/<path>, split at '/'
PfnStr(n) == <<attributes.scheme \o ":", "", attributes.hostname>> \o n

PfnNames == {"f", "g"}
NodeOf(name) == IF name = "f" THEN FileF ELSE FileG
Pfn(name) == PfnStr(NodeOf(name))

IsPrefixOf(p, s) == Len(p) <= Len(s) /\ SubSeq(s, 1, Len(p)) = p

\* parse_pfns: the decomposition {prefix, path, name} of a locator; a string
\* without scheme and hostname is decomposed as the local path it is
parse_pfns(x) ==
    LET loc == IF Len(x) >= 3 /\ x[1] = attributes.scheme \o ":"
               THEN <<"">> \o SubSeq(x, 4, Len(x)) ELSE x
        pr == IF IsPrefixOf(attributes.prefix, loc) THEN attributes.prefix ELSE <<"">>
        rest == SubSeq(loc, Len(pr) + 1, Len(loc))
    IN  [prefix |-> pr,
         path |-> IF Len(rest) > 1 THEN Front(rest) ELSE <<"">>,
         name |-> IF Len(rest) > 0 THEN <<rest[Len(rest)]>> ELSE <<"">>]

\* Default.pfn2path: '/'.join([prefix, path, name])
pfn2path(x) ==
    LET tmp == parse_pfns(x) IN tmp.prefix \o tmp.path \o tmp.name

\* Symlink.pfn2path: os.path.normpath of the above
Symlink_pfn2path(x) == ToStr(ToNode(pfn2path(x)))

Pfn2pathOf(v, x) == IF v = "Symlink" THEN Symlink_pfn2path(x) ELSE pfn2path(x)

-----------------------------------------------------------------------------
(* The operations; each yields the exception raised ("none" for a normal   *)
(* return) and the filesystem it leaves behind.                            *)

Exceptions == {"SourceNotFound", "DestinationNotAccessible", "ServiceUnavailable"}

\* Default.exists
exists(f, v, pfn) ==
    [exc |-> "none", ret |-> OsPathExists(f, ToNode(Pfn2pathOf(v, pfn)))]

\* Default.get that classifies a failed copy without looking at its errno
get_noerrno(f, v, pfn, dest) ==
    LET cp == ShutilCopy(f, ToNode(Pfn2pathOf(v, pfn)), ToNode(dest))
        probe == WriteFile(cp.fs, ToNode(dest), 0)
    IN  IF cp.err = 0 THEN [exc |-> "none", fs |-> cp.fs]
        ELSE IF probe.err # 0
             THEN [exc |-> IF probe.err = ENOENT THEN "DestinationNotAccessible"
                           ELSE "ServiceUnavailable",
                   fs |-> probe.fs]
        ELSE [exc |-> "ServiceUnavailable", fs |-> RmRf(probe.fs, ToNode(dest))]

\* Default.get
get(f, v, pfn, dest) ==
    LET cp == ShutilCopy(f, ToNode(Pfn2pathOf(v, pfn)), ToNode(dest))
        probe == WriteFile(cp.fs, ToNode(dest), 0)
    IN  IF cp.err = 0 THEN [exc |-> "none", fs |-> cp.fs]
        ELSE IF probe.err # 0
             THEN [exc |-> IF probe.err = ENOENT THEN "DestinationNotAccessible"
                           ELSE "ServiceUnavailable",
                   fs |-> probe.fs]
        ELSE [exc |-> IF cp.err = ENOENT THEN "SourceNotFound"
                      ELSE "ServiceUnavailable",
              fs |-> RmRf(probe.fs, ToNode(dest))]

RECURSIVE Bootstrap(_, _, _)
\* put's loop over prefix.split('/'): path += p + '/'; os.mkdir(path)
Bootstrap(f, comps, i) ==
    IF i > Len(comps) THEN [err |-> 0, fs |-> f]
    ELSE LET r == OsMkdir(f, ToNode(SubSeq(comps, 1, i) \o <<"">>))
         IN  IF r.err # 0 THEN r ELSE Bootstrap(r.fs, comps, i + 1)

\* a first attempt of put that creates only the last parent directory
put_attempt_mkdir(f, sf, target) ==
    LET dirs == ToNode(dirname(target))
        md == IF ~OsPathExists(f, dirs) THEN OsMkdir(f, dirs)
              ELSE [err |-> 0, fs |-> f]
    IN  IF md.err # 0 THEN md ELSE ShutilCopy(md.fs, ToNode(sf), ToNode(target))

\* the first attempt of put: create the parent directories, then copy
put_attempt(f, sf, target) ==
    LET dirs == ToNode(dirname(target))
        md == IF ~OsPathExists(f, dirs) THEN OsMakedirs(f, dirs)
              ELSE [err |-> 0, fs |-> f]
    IN  IF md.err # 0 THEN md ELSE ShutilCopy(md.fs, ToNode(sf), ToNode(target))

\* Default.put
put(f, v, source, pfn, source_dir) ==
    LET target == Pfn2pathOf(v, pfn)
        sf == IF source_dir # <<>> THEN source_dir \o source ELSE source
        first == put_attempt(f, sf, target)
        boot == Bootstrap(first.fs, rse_prefix, 1)
        retry == ShutilCopy(boot.fs, ToNode(sf), ToNode(Pfn2pathOf(v, target)))
    IN  IF first.err = 0 THEN [exc |-> "none", fs |-> first.fs]
        ELSE IF first.err = ENOENT THEN [exc |-> "SourceNotFound", fs |-> first.fs]
        ELSE IF ~exists(first.fs, v, rse_prefix).ret
             THEN IF boot.err # 0 THEN [exc |-> "OSError", fs |-> boot.fs]
                  ELSE IF retry.err # 0 THEN [exc |-> "OSError", fs |-> retry.fs]
                  ELSE [exc |-> "none", fs |-> retry.fs]
        ELSE [exc |-> "DestinationNotAccessible", fs |-> first.fs]

\* Default.delete
delete(f, v, pfn) ==
    LET r == OsRemove(f, ToNode(Pfn2pathOf(v, pfn)))
    IN  [exc |-> IF r.err = ENOENT THEN "SourceNotFound" ELSE "none", fs |-> r.fs]

\* Default.stat: os.stat and the checksum of the file; the size and the
\* checksum are given by the content
stat(f, v, pfn) ==
    LET n == ToNode(Pfn2pathOf(v, pfn))
    IN  IF OpenReadErr(f, n) # 0 THEN [exc |-> "OSError", ret |-> "None"]
        ELSE [exc |-> "none", ret |-> ToString(f[Follow(f, n)].data)]

\* the try block of rename: create the new parent directories, then rename
rename_attempt(f, path, new_path) ==
    LET ndir == ToNode(dirname(new_path))
        md == IF ~OsPathExists(f, ndir) THEN OsMakedirs(f, ndir)
              ELSE [err |-> 0, fs |-> f]
    IN  IF md.err # 0 THEN md ELSE OsRename(md.fs, ToNode(path), ToNode(new_path))

\* Default.rename
rename(f, v, pfn, new_pfn) ==
    LET path == Pfn2pathOf(v, pfn)
        new_path == Pfn2pathOf(v, new_pfn)
        r == rename_attempt(f, path, new_path)
    IN  IF r.err = 0 THEN [exc |-> "none", fs |-> r.fs]
        ELSE IF r.err = ENOENT
             THEN IF exists(r.fs, v, Pfn2pathOf(v, path)).ret
                  THEN [exc |-> "SourceNotFound", fs |-> r.fs]
                  ELSE [exc |-> "DestinationNotAccessible", fs |-> r.fs]
        ELSE [exc |-> "ServiceUnavailable", fs |-> r.fs]

\* Symlink.get, line 229-230: os.symlink(path, dest)
symlink_create(f, pfn, dest) ==
    OsSymlink(f, ToNode(Symlink_pfn2path(pfn)), ToNode(dest))

\* a clean-up of the broken link that leaves the link in place
symlink_unlink_skip(f, dest) == [err |-> LstatErr(f, ToNode(dest)), fs |-> f]

\* Symlink.get, line 242-243: if os.lstat(dest) and os.path.islink(dest):
\* os.unlink(dest)
symlink_unlink(f, dest) ==
    IF LstatErr(f, ToNode(dest)) # 0 THEN [err |-> LstatErr(f, ToNode(dest)), fs |-> f]
    ELSE IF OsPathIslink(f, ToNode(dest)) THEN OsRemove(f, ToNode(dest))
    ELSE [err |-> 0, fs |-> f]

\* Symlink.get, its statements one after the other
Symlink_get(f, pfn, dest) ==
    LET sl == symlink_create(f, pfn, dest)
        ul == symlink_unlink(sl.fs, dest)
    IN  IF sl.err # 0 THEN [exc |-> "OSError", fs |-> sl.fs]
        ELSE IF LstatErr(sl.fs, ToNode(dest)) # 0 THEN [exc |-> "OSError", fs |-> sl.fs]
        ELSE IF ~OsPathExists(sl.fs, ToNode(dest))
             THEN IF ul.err # 0 THEN [exc |-> "OSError", fs |-> ul.fs]
                  ELSE [exc |-> "SourceNotFound", fs |-> ul.fs]
        ELSE [exc |-> "none", fs |-> sl.fs]

-----------------------------------------------------------------------------
(* State machine: one caller issuing protocol calls one after the other,   *)
(* and the environment changing the filesystem between calls.              *)

Idle == [op |-> "idle", pfn |-> "-", arg |-> "-", exc |-> "none", ret |-> "None"]

Call(op, pfn, arg, exc, ret) ==
    [op |-> op, pfn |-> pfn, arg |-> arg, exc |-> exc, ret |-> ret]

\* the destination the caller passes to get
Dest == ToStr(LocalDst)

\* a fresh host: only the root and the client's working directory exist
InitFs ==
    [n \in Nodes |-> IF n \in {Root, TmpDir} THEN Dir("rwx") ELSE NoEntry]

NoLocals == [pfn |-> "-", exc |-> "none", chk |-> "-"]

\* the workers of the concurrent put, and a worker that runs nothing
Workers == {1, 2}
NoWork == [pc |-> "idle", pfn |-> "-", err |-> 0, exc |-> "none"]

\* no lfns2pfns call made
NoMap == [prefix |-> <<"">>, arg |-> "-", lfn |-> <<>>, pfns |-> <<>>]

Init ==
    /\ fs = InitFs
    /\ pre = InitFs
    /\ last = Idle
    /\ variant \in {"Default", "Symlink"}
    /\ pc = "idle"
    /\ lnk = NoLocals
    /\ wk = [w \in Workers |-> NoWork]
    /\ map = NoMap

Finish(call, f) ==
    /\ pc = "idle"
    /\ last = Idle
    /\ pre' = fs
    /\ fs' = f
    /\ last' = call
    /\ UNCHANGED <<variant, pc, lnk, wk, map>>

Exists ==
    /\ last = Idle
    /\ \E p \in PfnNames :
        LET r == exists(fs, variant, Pfn(p))
        IN  Finish(Call("exists", p, "-", r.exc, IF r.ret THEN "True" ELSE "False"), fs)

DefaultGet ==
    /\ variant = "Default"
    /\ \E p \in PfnNames :
        LET r == get(fs, variant, Pfn(p), Dest)
        IN  Finish(Call("get", p, "-", r.exc, "None"), r.fs)

SymlinkGet ==
    /\ variant = "Symlink"
    /\ \E p \in PfnNames :
        LET r == Symlink_get(fs, Pfn(p), Dest)
        IN  Finish(Call("get", p, "-", r.exc, "None"), r.fs)

\* put(source, target, source_dir): "s" under source_dir "/tmp", or the full
\* path "/tmp/s" without a source_dir
Put ==
    /\ last = Idle
    /\ \E p \in PfnNames, sd \in {"dir", "nodir"} :
        LET r == IF sd = "dir" THEN put(fs, variant, <<"s">>, Pfn(p), ToStr(TmpDir))
                 ELSE put(fs, variant, ToStr(LocalSrc), Pfn(p), <<>>)
        IN  Finish(Call("put", p, sd, r.exc, "None"), r.fs)

Delete ==
    /\ last = Idle
    /\ \E p \in PfnNames :
        LET r == delete(fs, variant, Pfn(p))
        IN  Finish(Call("delete", p, "-", r.exc, "None"), r.fs)

Rename ==
    /\ last = Idle
    /\ \E p \in PfnNames, q \in PfnNames :
        LET r == rename(fs, variant, Pfn(p), Pfn(q))
        IN  Finish(Call("rename", p, q, r.exc, "None"), r.fs)

Stat ==
    /\ last = Idle
    /\ \E p \in PfnNames :
        LET r == stat(fs, variant, Pfn(p))
        IN  Finish(Call("stat", p, "-", r.exc, r.ret), fs)

\* the caller takes the outcome of its call and is ready for the next one
Return ==
    /\ pc = "idle"
    /\ last # Idle
    /\ last' = Idle
    /\ pre' = fs
    /\ UNCHANGED <<fs, variant, pc, lnk, wk, map>>

\* The environment (other processes of the host, acting with any rights)

EnvStep(f) ==
    /\ pc = "idle"
    /\ last = Idle
    /\ \A w \in Workers : wk[w].pc = "idle"
    /\ fs' = f
    /\ pre' = f
    /\ last' = Idle
    /\ UNCHANGED <<variant, pc, lnk, wk, map>>

EnvWrite ==
    \E n \in Leaves, c \in Contents :
        /\ fs[Parent(n)].kind = "dir"
        /\ fs[n].kind \in {"none", "file"}
        /\ fs[n] # File(c)
        /\ EnvStep([fs EXCEPT ![n] = File(c)])

EnvMkdir ==
    \E n \in Dirs \ {Root} :
        /\ fs[Parent(n)].kind = "dir"
        /\ fs[n].kind = "none"
        /\ EnvStep([fs EXCEPT ![n] = Dir("rwx")])

EnvRemove ==
    \E n \in Nodes \ {Root} :
        /\ fs[n].kind # "none"
        /\ \A c \in Children(n) : fs[c].kind = "none"
        /\ EnvStep([fs EXCEPT ![n] = NoEntry])

\* the permissions the environment sets on each directory
ModeChoices(n) ==
    IF n = DirA THEN {"rwx", "rx", "none"}
    ELSE IF n \in {Root, TmpDir} THEN {"rwx", "rx"}
    ELSE {"rwx"}

EnvChmod ==
    \E n \in Dirs :
        \E m \in ModeChoices(n) :
            /\ fs[n].kind = "dir"
            /\ fs[n].mode # m
            /\ EnvStep([fs EXCEPT ![n] = Dir(m)])

Next ==
    \/ Exists
    \/ DefaultGet
    \/ SymlinkGet
    \/ Put
    \/ Delete
    \/ Rename
    \/ Stat
    \/ Return
    \/ EnvWrite
    \/ EnvMkdir
    \/ EnvRemove
    \/ EnvChmod

Spec == Init /\ [][Next]_vars

-----------------------------------------------------------------------------
(* Symlink.get statement by statement, with other workers of the same      *)
(* instance deleting and storing files between its statements.             *)

InitLink == Init /\ variant = "Symlink"

LinkStep(p, f, l) ==
    /\ pc' = p
    /\ fs' = f
    /\ lnk' = l
    /\ UNCHANGED <<pre, last, variant, wk, map>>

\* line 229-230: the link is created, or os.symlink raises
LinkCreate ==
    /\ pc = "idle"
    /\ \E p \in PfnNames :
        LET r == symlink_create(fs, Pfn(p), Dest)
        IN  /\ pre' = fs
            /\ fs' = r.fs
            /\ pc' = IF r.err # 0 THEN "done" ELSE "lstat"
            /\ lnk' = [pfn |-> p, exc |-> IF r.err # 0 THEN "OSError" ELSE "none",
                       chk |-> "-"]
            /\ UNCHANGED <<last, variant, wk, map>>

\* line 234: os.lstat(dest) raises when the link is not there; its result is
\* never false
LinkLstat ==
    /\ pc = "lstat"
    /\ IF LstatErr(fs, LocalDst) # 0
       THEN LinkStep("done", fs, [lnk EXCEPT !.exc = "OSError"])
       ELSE LinkStep("exists", fs, lnk)

\* line 238: os.path.exists(dest) follows the link
LinkExists ==
    /\ pc = "exists"
    /\ IF OsPathExists(fs, LocalDst)
       THEN LinkStep("done", fs, [lnk EXCEPT !.chk = "found"])
       ELSE LinkStep("unlink", fs,
                     [lnk EXCEPT !.chk = IF StatErr(fs, LocalDst) = ENOENT THEN "missing"
                                         ELSE "unknown"])

\* line 242-244: the broken link is removed and SourceNotFound raised
LinkUnlink ==
    /\ pc = "unlink"
    /\ LET r == symlink_unlink(fs, Dest)
       IN  LinkStep("done", r.fs,
                    [lnk EXCEPT !.exc = IF r.err # 0 THEN "OSError"
                                        ELSE "SourceNotFound"])

LinkReturn ==
    /\ pc = "done"
    /\ pc' = "idle"
    /\ lnk' = NoLocals
    /\ pre' = fs
    /\ UNCHANGED <<fs, last, variant, wk, map>>

\* another worker's delete(pfn), while the get is under way
OtherDelete ==
    /\ pc \notin {"idle", "done"}
    /\ \E p \in PfnNames :
        /\ delete(fs, variant, Pfn(p)).fs # fs
        /\ fs' = delete(fs, variant, Pfn(p)).fs
    /\ UNCHANGED <<pre, last, variant, pc, lnk, wk, map>>

\* another worker's put(source, target), while the get is under way
OtherPut ==
    /\ pc \notin {"idle", "done"}
    /\ \E p \in PfnNames :
        /\ put(fs, variant, ToStr(LocalSrc), Pfn(p), <<>>).fs # fs
        /\ fs' = put(fs, variant, ToStr(LocalSrc), Pfn(p), <<>>).fs
    /\ UNCHANGED <<pre, last, variant, pc, lnk, wk, map>>

NextLink ==
    \/ LinkCreate
    \/ LinkLstat
    \/ LinkExists
    \/ LinkUnlink
    \/ LinkReturn
    \/ OtherDelete
    \/ OtherPut
    \/ EnvWrite
    \/ EnvMkdir
    \/ EnvRemove
    \/ EnvChmod

SpecLink == InitLink /\ [][NextLink]_vars

-----------------------------------------------------------------------------
(* lfns2pfns.  Strings are split at '/' as above: "" is <<"">>, "/" is      *)
(* <<"", "">>, "data/" is <<"data", "">>.                                  *)

Slash == <<"", "">>

\* str.startswith('/') and str.endswith('/')
StartsWithSlash(str) == Len(str) >= 2 /\ str[1] = ""
EndsWithSlash(str) == Len(str) >= 2 /\ str[Len(str)] = ""

\* ''.join([a, b]): the last component of a and the first of b run together
Concat(a, b) == Front(a) \o <<a[Len(a)] \o b[1]>> \o Tail(b)

\* str[1:] of a string that starts with '/'
DropFirstChar(str) == Tail(str)

\* self._get_path(scope, name): the layout function, scope/name
get_path(scope, name) == <<scope, name>>

\* an LFN: scope, name and a path (<<>> when the LFN has no 'path' key)
Lfn(scope, name, path) == [scope |-> scope, name |-> name, path |-> path]

\* the prefix as normalised by lines 174-179
lfn_prefix(attr) ==
    LET p1 == IF ~StartsWithSlash(attr.prefix) THEN Concat(Slash, attr.prefix)
              ELSE attr.prefix
    IN  IF ~EndsWithSlash(p1) THEN Concat(p1, Slash) ELSE p1

\* a PFN composed from the path as it is, leading separator included
lfn_pfn_keepslash(attr, lfn) ==
    LET head == Concat(Concat(Concat(<<attr.scheme>>, <<":", "", "">>),
                              <<attr.hostname>>), lfn_prefix(attr))
    IN  IF lfn.path # <<>> /\ lfn.path # <<"">>
        THEN Concat(head, lfn.path)
        ELSE Concat(head, get_path(lfn.scope, lfn.name))

\* the PFN of one LFN, lines 183-197
lfn_pfn(attr, lfn) ==
    LET head == Concat(Concat(Concat(<<attr.scheme>>, <<":", "", "">>),
                              <<attr.hostname>>), lfn_prefix(attr))
    IN  IF lfn.path # <<>> /\ lfn.path # <<"">>
        THEN Concat(head, IF ~StartsWithSlash(lfn.path) THEN lfn.path
                          ELSE DropFirstChar(lfn.path))
        ELSE Concat(head, get_path(lfn.scope, lfn.name))

\* the key '%s:%s' % (scope, name)
LfnKey(lfn) == lfn.scope \o ":" \o lfn.name

RECURSIVE lfn_loop(_, _, _, _)
\* the loop of lines 182-197 from element i on, filling the dict pfns
lfn_loop(attr, lfns, i, pfns) ==
    IF i > Len(lfns) THEN pfns
    ELSE lfn_loop(attr, lfns, i + 1,
                  (LfnKey(lfns[i]) :> lfn_pfn(attr, lfns[i])) @@ pfns)

\* Default.lfns2pfns; arg tells whether lfns is a dict or a list
lfns2pfns(attr, lfns, arg) ==
    lfn_loop(attr, IF arg = "dict" THEN <<lfns>> ELSE lfns, 1, <<>>)

\* the inputs: prefixes with and without separators at either end, LFNs
\* without a path, with an empty path and with paths with and without
\* leading separators
Prefixes == {<<"data">>, <<"", "data">>, <<"data", "">>, <<"", "data", "">>,
             <<"">>, <<"", "">>, <<"", "srv", "data">>}
Scopes == {"test", "user"}
Names == {"file1", "file2"}
Paths == {<<>>, <<"">>, <<"a", "f">>, <<"", "a", "f">>, <<"", "", "a", "f">>}
Lfns == {Lfn(sc, nm, pa) : sc \in Scopes, nm \in Names, pa \in Paths}

AttributesOf(prefix) ==
    [scheme |-> attributes.scheme, hostname |-> attributes.hostname,
     prefix |-> prefix]

\* an instance is constructed with its prefix
InitLfn ==
    /\ fs = InitFs
    /\ pre = InitFs
    /\ last = Idle
    /\ variant \in {"Default", "Symlink"}
    /\ pc = "idle"
    /\ lnk = NoLocals
    /\ wk = [w \in Workers |-> NoWork]
    /\ \E prefix \in Prefixes :
          map = [prefix |-> prefix, arg |-> "-", lfn |-> <<>>, pfns |-> <<>>]

\* lfns2pfns called with a single LFN
Lfns2pfnsDict ==
    \E lfn \in Lfns :
        /\ map' = [map EXCEPT !.arg = "dict", !.lfn = lfn,
                              !.pfns = lfns2pfns(AttributesOf(map.prefix), lfn, "dict")]
        /\ UNCHANGED <<fs, pre, last, variant, pc, lnk, wk>>

\* lfns2pfns called with a list of one LFN
Lfns2pfnsList ==
    \E lfn \in Lfns :
        /\ map' = [map EXCEPT !.arg = "list", !.lfn = lfn,
                              !.pfns = lfns2pfns(AttributesOf(map.prefix), <<lfn>>, "list")]
        /\ UNCHANGED <<fs, pre, last, variant, pc, lnk, wk>>

NextLfn ==
    \/ Lfns2pfnsDict
    \/ Lfns2pfnsList

SpecLfn == InitLfn /\ [][NextLfn]_vars

-----------------------------------------------------------------------------
(* Default.put run by two workers on the same instance, one filesystem     *)
(* call at a time (SpecPut).  Each worker uploads /tmp/s to a PFN of its   *)
(* choice; the environment changes the filesystem between the calls.       *)

PutTarget(w) == Pfn2pathOf(variant, Pfn(wk[w].pfn))

PutStep(w, r, f) ==
    /\ wk' = [wk EXCEPT ![w] = r]
    /\ fs' = f
    /\ UNCHANGED <<pre, last, variant, pc, lnk, map>>

\* line 107: os.path.exists(dirs)
PutCheck(w) ==
    /\ wk[w].pc = "idle"
    /\ \A o \in Workers : wk[o].pc # "done"
    /\ \E p \in PfnNames :
        LET dirs == ToNode(dirname(Pfn2pathOf(variant, Pfn(p))))
        IN  wk' = [wk EXCEPT ![w] =
                      [NoWork EXCEPT !.pfn = p,
                                     !.pc = IF OsPathExists(fs, dirs) THEN "copy"
                                            ELSE "makedirs"]]
    /\ pre' = IF \A o \in Workers : wk[o].pc = "idle" THEN fs ELSE pre
    /\ UNCHANGED <<fs, last, variant, pc, lnk, map>>

\* line 108: os.makedirs(dirs)
PutMakedirs(w) ==
    /\ wk[w].pc = "makedirs"
    /\ LET r == OsMakedirs(fs, ToNode(dirname(PutTarget(w))))
       IN  IF r.err # 0
           THEN PutStep(w, [wk[w] EXCEPT !.pc = "except", !.err = r.err], r.fs)
           ELSE PutStep(w, [wk[w] EXCEPT !.pc = "copy"], r.fs)

\* line 109: shutil.copy(sf, target)
PutCopy(w) ==
    /\ wk[w].pc = "copy"
    /\ LET r == ShutilCopy(fs, LocalSrc, ToNode(PutTarget(w)))
       IN  IF r.err # 0
           THEN PutStep(w, [wk[w] EXCEPT !.pc = "except", !.err = r.err], r.fs)
           ELSE PutStep(w, [wk[w] EXCEPT !.pc = "done"], r.fs)

\* line 110-122: the except block; the bootstrap's first os.mkdir is of '/'
PutExcept(w) ==
    /\ wk[w].pc = "except"
    /\ LET boot == Bootstrap(fs, rse_prefix, 1)
           retry == ShutilCopy(boot.fs, LocalSrc,
                               ToNode(Pfn2pathOf(variant, PutTarget(w))))
           out == IF wk[w].err = ENOENT THEN [exc |-> "SourceNotFound", fs |-> fs]
                  ELSE IF ~exists(fs, variant, rse_prefix).ret
                       THEN IF boot.err # 0 THEN [exc |-> "OSError", fs |-> boot.fs]
                            ELSE IF retry.err # 0
                                 THEN [exc |-> "OSError", fs |-> retry.fs]
                            ELSE [exc |-> "none", fs |-> retry.fs]
                  ELSE [exc |-> "DestinationNotAccessible", fs |-> fs]
       IN  PutStep(w, [wk[w] EXCEPT !.pc = "done", !.exc = out.exc], out.fs)

\* the calls under way have returned or raised
PutReturn ==
    /\ \E w \in Workers : wk[w].pc = "done"
    /\ \A w \in Workers : wk[w].pc \in {"idle", "done"}
    /\ wk' = [w \in Workers |-> NoWork]
    /\ pre' = fs
    /\ UNCHANGED <<fs, last, variant, pc, lnk, map>>

NextPut ==
    \/ \E w \in Workers : PutCheck(w)
    \/ \E w \in Workers : PutMakedirs(w)
    \/ \E w \in Workers : PutCopy(w)
    \/ \E w \in Workers : PutExcept(w)
    \/ PutReturn
    \/ EnvWrite
    \/ EnvMkdir
    \/ EnvRemove
    \/ EnvChmod

SpecPut == Init /\ [][NextPut]_vars

TypeOK ==
    /\ \A n \in Nodes : fs[n].kind \in {"none", "file", "dir", "link"}
    /\ \A n \in Nodes \ {Root} : fs[n].kind # "none" => fs[Parent(n)].kind = "dir"
    /\ \A n \in Dirs : fs[n].kind \in {"none", "dir"}
    /\ \A n \in Leaves : fs[n].kind # "dir"
    /\ last.exc \in Exceptions \cup {"none", "OSError"}

-----------------------------------------------------------------------------
(* Vocabulary of the claims.  A path "does not exist" (is missing, absent) *)
(* when stat reports the missing entity, and is "present" when stat        *)
(* succeeds; otherwise its presence cannot be determined.                  *)

Missing(f, n) == StatErr(f, n) = ENOENT
Present(f, n) == StatErr(f, n) = 0
PresentFile(f, n) == Present(f, n) /\ f[Follow(f, n)].kind = "file"

Src == NodeOf(last.pfn)
Called(op) == last.op = op

\* the directory of the destination exists and is writable
DestDirWritable(f) == LookupErr(f, LocalDst) = 0 /\ Writable(f[TmpDir])

\* the outcome of put's first attempt in the last call
PutSf == IF last.arg = "dir" THEN ToStr(TmpDir) \o <<"s">> ELSE ToStr(LocalSrc)
PutFirst == put_attempt(pre, PutSf, Pfn2pathOf(variant, Pfn(last.pfn)))

\* the outcome of rename's try block in the last call
RenameTry ==
    rename_attempt(pre, Pfn2pathOf(variant, Pfn(last.pfn)),
                   Pfn2pathOf(variant, Pfn(last.arg)))

\* the nearest ancestor of n that stat finds
RECURSIVE NearestAncestor(_, _)
NearestAncestor(f, n) ==
    IF n = Root \/ Present(f, Parent(n)) THEN Parent(n)
    ELSE NearestAncestor(f, Parent(n))

-----------------------------------------------------------------------------
(* Claims *)

\* C1: Default.get with a source path that does not exist and a destination
\* whose parent directory exists and is writable raises SourceNotFound.
C1_GetMissingSource ==
    (Called("get") /\ variant = "Default" /\ Missing(pre, Src) /\ DestDirWritable(pre))
        => last.exc = "SourceNotFound"

C1_Witness ==
    /\ Called("get") /\ variant = "Default"
    /\ Missing(pre, Src) /\ DestDirWritable(pre)
    /\ pre[LocalDst].kind = "file"
    /\ last.exc = "SourceNotFound"

\* C2: Default.get with a source that does not exist and a destination whose
\* parent directory is absent, or exists but is not writable, raises
\* DestinationNotAccessible in both cases.
C2_GetMissingSourceBadDest ==
    (/\ Called("get") /\ variant = "Default" /\ Missing(pre, Src)
     /\ \/ Missing(pre, TmpDir)
        \/ Present(pre, TmpDir) /\ ~Writable(pre[TmpDir]))
        => last.exc = "DestinationNotAccessible"

\* C3: delete of an absent file raises SourceNotFound and changes nothing;
\* delete of a present file returns normally and removes it, and exists
\* called next returns false.
C3_DeleteThenExists ==
    Called("delete") =>
        /\ Missing(pre, Src) => last.exc = "SourceNotFound" /\ fs = pre
        /\ PresentFile(pre, Src) =>
              /\ last.exc = "none"
              /\ fs = [pre EXCEPT ![Src] = NoEntry]
              /\ exists(fs, variant, Pfn(last.pfn)) = [exc |-> "none", ret |-> FALSE]

\* C4 (as stated): put with a present source and a target whose parent
\* directories do not exist creates every missing parent, copies the source
\* and returns normally; exists(target) is then true and the target holds
\* the source's content.
PutStored ==
    /\ last.exc = "none"
    /\ \A i \in 0..(Len(Src) - 1) : fs[SubSeq(Src, 1, i)].kind = "dir"
    /\ fs[Src] = pre[LocalSrc]
    /\ fs[Src].kind = "file"
    /\ exists(fs, variant, Pfn(last.pfn)).ret

C4_PutCreatesParents ==
    (Called("put") /\ PresentFile(pre, LocalSrc) /\ Missing(pre, Parent(Src)))
        => PutStored

\* C4 (amended): the same, provided the nearest existing ancestor directory
\* of the target is writable.
C4_PutCreatesParentsWritable ==
    (/\ Called("put") /\ PresentFile(pre, LocalSrc) /\ Missing(pre, Parent(Src))
     /\ Writable(pre[NearestAncestor(pre, Src)]))
        => PutStored

C4_Witness ==
    /\ Called("put") /\ PresentFile(pre, LocalSrc)
    /\ Src = FileG /\ Missing(pre, DirA) /\ Present(pre, DataDir)
    /\ PutStored

\* C5: when put's first attempt fails with an error other than the missing
\* source and the storage root prefix does not exist, the prefix is created
\* and the retried put succeeds with the file at the target; when the prefix
\* exists, the same failure raises DestinationNotAccessible.
C5_PutBootstrap ==
    (Called("put") /\ PutFirst.err \notin {0, ENOENT}) =>
        IF exists(PutFirst.fs, variant, rse_prefix).ret
        THEN last.exc = "DestinationNotAccessible" /\ fs = PutFirst.fs
        ELSE /\ last.exc = "none"
             /\ Present(fs, ToNode(rse_prefix))
             /\ fs[Src] = pre[LocalSrc] /\ fs[Src].kind = "file"

\* C6: when rename fails with a missing-entity error, an original that still
\* exists raises DestinationNotAccessible and an original that is gone raises
\* SourceNotFound; every other failure raises ServiceUnavailable.
C6_RenameDisambiguation ==
    (Called("rename") /\ RenameTry.err # 0) =>
        IF RenameTry.err = ENOENT
        THEN IF Present(fs, Src) THEN last.exc = "DestinationNotAccessible"
             ELSE last.exc = "SourceNotFound"
        ELSE last.exc = "ServiceUnavailable"

\* C7: get with a present source and a writable, not yet existing destination
\* returns normally and leaves the source unchanged; with Default the
\* destination is a regular file with the source's content, with Symlink it
\* is a link that resolves to the source's local path.
C7_GetPresentSource ==
    (/\ Called("get") /\ PresentFile(pre, Src)
     /\ DestDirWritable(pre) /\ pre[LocalDst].kind = "none")
        => /\ last.exc = "none"
           /\ fs[Src] = pre[Src]
           /\ \A n \in Nodes \ {LocalDst} : fs[n] = pre[n]
           /\ variant = "Default" => fs[LocalDst] = File(pre[Src].data)
           /\ variant = "Symlink" =>
                 /\ fs[LocalDst].kind = "link"
                 /\ Follow(fs, LocalDst) = Src

C7_Witness ==
    /\ Called("get") /\ PresentFile(pre, Src)
    /\ DestDirWritable(pre) /\ pre[LocalDst].kind = "none"
    /\ last.exc = "none"
    /\ variant = "Default"
    /\ fs[LocalDst] = File(2)

\* C8: a Symlink.get whose link is created but whose target does not exist
\* when the link is followed raises SourceNotFound, and afterwards no entry
\* remains at the destination.
C8_BrokenLinkRemoved ==
    (pc = "done" /\ lnk.chk = "missing")
        => lnk.exc = "SourceNotFound" /\ fs[LocalDst].kind = "none"

\* the source was there when the link was made and gone when it was followed
C8_Witness ==
    /\ pc = "done" /\ lnk.chk = "missing"
    /\ PresentFile(pre, NodeOf(lnk.pfn))
    /\ lnk.exc = "SourceNotFound"
    /\ fs[LocalDst].kind = "none"

\* C9: exists returns true when the path is present, false only when it is
\* missing, and raises ServiceUnavailable for every other failure of stat.
C9_ExistsTrichotomy ==
    Called("exists") =>
        /\ Present(pre, Src) => last.exc = "none" /\ last.ret = "True"
        /\ Missing(pre, Src) => last.exc = "none" /\ last.ret = "False"
        /\ StatErr(pre, Src) \notin {0, ENOENT} => last.exc = "ServiceUnavailable"

\* C10: delete never returns normally while the file is still present: every
\* removal failure other than the missing file raises ServiceUnavailable.
C10_DeleteReportsFailure ==
    Called("delete") =>
        /\ last.exc = "none" => ~PresentFile(fs, Src)
        /\ OsRemove(pre, Src).err \notin {0, ENOENT} => last.exc = "ServiceUnavailable"

\* C11: every failure exists, get, put, delete, rename or stat reports is
\* one of SourceNotFound, DestinationNotAccessible, ServiceUnavailable or
\* RSEAccessDenied; a raw OSError never reaches the caller.
C11_StableFaults ==
    last.op \in {"exists", "get", "put", "delete", "rename", "stat"}
        => last.exc \in Exceptions \cup {"RSEAccessDenied", "none"}

\* C12: lfns2pfns composes each PFN as scheme://hostname + P + R: P is the
\* prefix with a separator added at the start and at the end only when
\* missing, R the explicit path less one leading separator when the path is
\* non-empty, else the layout function's path; a single LFN and a list of
\* one LFN give the same result under the key scope:name.
PrefixCandidates(pr) ==
    {pr, Concat(Slash, pr), Concat(pr, Slash), Concat(Concat(Slash, pr), Slash)}

\* the shortest of the candidates that starts and ends with a separator
ExpectedP(pr) ==
    CHOOSE c \in PrefixCandidates(pr) :
        /\ StartsWithSlash(c) /\ EndsWithSlash(c)
        /\ \A d \in PrefixCandidates(pr) :
              StartsWithSlash(d) /\ EndsWithSlash(d) => Len(c) <= Len(d)

\* R is the path, or the path is '/' + R
IsExpectedR(lfn, r) ==
    IF lfn.path \in {<<>>, <<"">>} THEN r = get_path(lfn.scope, lfn.name)
    ELSE IF lfn.path[1] = "" THEN Concat(Slash, r) = lfn.path
    ELSE r = lfn.path

C12_Lfns2pfns ==
    map.arg # "-" =>
        LET key == map.lfn.scope \o ":" \o map.lfn.name
            host == <<attributes.scheme \o ":", "", attributes.hostname>>
            P == ExpectedP(map.prefix)
        IN  /\ DOMAIN map.pfns = {key}
            /\ SubSeq(map.pfns[key], 1, 3) = host
            /\ \E r \in {SubSeq(map.pfns[key], i, Len(map.pfns[key])) :
                           i \in 1..Len(map.pfns[key])} :
                  /\ IsExpectedR(map.lfn, r)
                  /\ map.pfns[key] = Concat(Concat(host, P), r)
            /\ map.pfns = lfns2pfns(AttributesOf(map.prefix), map.lfn, "dict")
            /\ map.pfns = lfns2pfns(AttributesOf(map.prefix), <<map.lfn>>, "list")

\* prefix "data", LFN test:file1 without a path
C12_Witness ==
    /\ map.arg = "list"
    /\ map.prefix = <<"data">>
    /\ map.lfn = Lfn("test", "file1", <<>>)
    /\ map.pfns["test:file1"] = <<"file:", "", "host", "data", "test", "file1">>

\* C13: Symlink.get raises DestinationNotAccessible whenever the link
\* creation leaves no link of its own at the destination, including when the
\* destination's parent directory is absent or an entry already is there.
C13_NoLinkIsDestinationFault ==
    (/\ Called("get") /\ variant = "Symlink"
     /\ symlink_create(pre, Pfn(last.pfn), Dest).err # 0)
        => last.exc = "DestinationNotAccessible"

\* C15: a Default.get that raises leaves the destination path as it was
\* before the call: no probe file remains, and a file that was there is still
\* there with its content.
C15_FailedGetKeepsDest ==
    (Called("get") /\ variant = "Default" /\ last.exc # "none")
        => fs[LocalDst] = pre[LocalDst]

\* C16: a put whose source file is absent raises SourceNotFound and leaves
\* the storage unchanged: nothing new at the target and no parent directory
\* that was missing before the call.
C16_FailedPutKeepsStorage ==
    (Called("put") /\ Missing(pre, LocalSrc))
        => last.exc = "SourceNotFound" /\ fs = pre

\* C14: when two workers run put concurrently with a present source and
\* targets below a directory that is missing and can be created, both puts
\* return normally with their files stored, under every interleaving of their
\* existence checks, directory creations and copies.
C14_ConcurrentPut ==
    (/\ \A w \in Workers : wk[w].pc = "done"
     /\ PresentFile(pre, LocalSrc)
     /\ Missing(pre, DirA)
     /\ Writable(pre[NearestAncestor(pre, DirA)]))
        => \A w \in Workers :
              /\ wk[w].exc = "none"
              /\ fs[NodeOf(wk[w].pfn)] = pre[LocalSrc]

====
